---------------------------- MODULE Spec2Model ----------------------------
(***************************************************************************)
(* A model of Peloton's index-selection engine (brain/index_selection).    *)
(*                                                                         *)
(* Handles (std::shared_ptr<IndexObject>) are modelled by the address of   *)
(* the object they point to: a std::set of handles iterates in ascending   *)
(* address order, and the allocator may hand out any free address.         *)
(* Costs (double) are modelled by small naturals.                          *)
(***************************************************************************)
EXTENDS Integers, Sequences, FiniteSets, TLC

\* ------------------------------------------------------------------ bounds

\* Addresses the allocator can hand out: 1..MaxAddr.
MaxAddr == 5
\* Direct GetCost calls made in the cost specification.
MaxGetCostCalls == 3
\* Operations performed in the pool specification.
MaxPoolOps == 3

\* The k GetBestIndexes passes to Enumerate.
NumIndexesArg == 4

Addrs == 1 .. MaxAddr
\* A null shared_ptr.
Null == 0

\* The catalog the statements are bound against: table 10 holds columns
\* 100..104, table 20 holds column 200; all in database 1.
DbOid == 1
ColumnOids == {100, 101, 102, 103, 104, 200}
TableOf(c) == IF c < 200 THEN 10 ELSE 20

\* ------------------------------------------------------------- IndexObject

\* The iteration order of a std::set of integers (oids or addresses).
RECURSIVE SetToSeq(_)
SetToSeq(S) ==
  IF S = {} THEN <<>>
  ELSE LET x == CHOOSE x \in S : \A y \in S : x <= y
       IN  <<x>> \o SetToSeq(S \ {x})

Range(s) == {s[i] : i \in DOMAIN s}

\* IndexObject(db_oid, table_oid, col_oid)
IndexObject1(db, table, col) ==
  [db_oid |-> db, table_oid |-> table, column_oids |-> {col}]

\* IndexObject(db_oid, table_oid, std::vector<oid_t> &col_oids): the columns
\* are inserted into the std::set member one by one.
IndexObjectVec(db, table, cols) ==
  [db_oid |-> db, table_oid |-> table, column_oids |-> Range(cols)]

\* The columns of an index as a reader of column_oids sees them.
ColumnsOf(obj) == SetToSeq(obj.column_oids)

\* IndexObject::operator==
IndexObjectEq(a, b) ==
  /\ a.db_oid = b.db_oid
  /\ a.table_oid = b.table_oid
  /\ a.column_oids = b.column_oids

\* IndexObject::IsCompatible
IsCompatible(a, b) == a.db_oid = b.db_oid /\ a.table_oid = b.table_oid

\* IndexObject::Merge: a copy of the left object into whose column set the
\* right object's columns are inserted.
Merge(a, b) ==
  [db_oid |-> a.db_oid, table_oid |-> a.table_oid,
   column_oids |-> a.column_oids \cup b.column_oids]

\* ---------------------------------------------------------- IndexObjectPool

\* A pool is [heap, map]: heap maps the address of every allocated object to
\* the object, map is map_ (object -> handle).
EmptyPool == [heap |-> <<>>, map |-> <<>>]

FreeAddrs(pool) == Addrs \ DOMAIN pool.heap

\* IndexObjectPool::GetIndexObject: the handle stored for an equal object,
\* or a null pointer.
GetIndexObject(pool, obj) ==
  IF \E k \in DOMAIN pool.map : IndexObjectEq(k, obj)
  THEN pool.map[CHOOSE k \in DOMAIN pool.map : IndexObjectEq(k, obj)]
  ELSE Null

\* IndexObjectPool::PutIndexObject: the existing handle, or a new object at
\* address a (the address the allocator returns) entered into map_.
PutIndexObject(pool, obj, a) ==
  LET h == GetIndexObject(pool, obj)
  IN  IF h # Null
      THEN [pool |-> pool, h |-> h]
      ELSE [pool |-> [heap |-> (a :> obj) @@ pool.heap,
                      map  |-> (obj :> a) @@ pool.map],
            h |-> a]

\* The Get-then-Put of IndexObjectPoolInsertHelper without the handle: used
\* only as a mutation of PoolIntern (an object made outside map_).
PoolInternUnshared(pool, obj, a) ==
  LET h == GetIndexObject(pool, obj)
  IN  IF h # Null
      THEN [pool |-> pool, h |-> h]
      ELSE [pool |-> [heap |-> (a :> obj) @@ pool.heap, map |-> pool.map],
            h |-> a]

\* IndexObjectPoolInsertHelper's lookup: GetIndexObject, and PutIndexObject
\* when it returned null.
PoolIntern(pool, obj, a) ==
  LET h == GetIndexObject(pool, obj)
  IN  IF h # Null THEN [pool |-> pool, h |-> h]
      ELSE PutIndexObject(pool, obj, a)


\* ------------------------------------------------------------------- state

VARIABLES
  pool,                 \* context_.pool: [heap, map]
  memo_,                \* context_.memo_: <<configuration, statement>> -> cost
  oracle,               \* the what-if oracle: <<set of IndexObjects, statement>> -> cost
  calls,                \* how often the oracle was asked, per <<configuration, statement>>
  costLog,              \* every GetCost call: [config, workload, cost, asked]
  m,                    \* context_.min_enumerate_count_
  ndebug,               \* whether the build compiles assert() out
  query_set_,           \* the workload of the IndexSelection object
  qi,                   \* position of GetBestIndexes in query_set_
  C,                    \* GetBestIndexes' result so far
  Ai,                   \* the admissible indexes of the current query
  pc,                   \* where the running call stands
  indexes,              \* GreedySearch's indexes (Enumerate's top_indexes)
  remaining_indexes,    \* GreedySearch's remaining_indexes
  workload,             \* the workload Enumerate / GreedySearch were given
  k,                    \* the k Enumerate / GreedySearch were given
  current_index_count,  \* GreedySearch's locals
  global_min_cost,
  cur_min_cost,
  best_index,
  trace,                \* one record per pass of GreedySearch's loop (see GreedyIter)
  result_set,           \* ExhaustiveEnumeration's result_set when it returned
  config,               \* a configuration under construction (pool operations)
  internLog,            \* every handle the pool returned: [obj, h]
  vecLog,               \* handles of objects built from a column vector: [cols, h]
  mergeLog,             \* every merge Crossproduct made: [left, right, merged, h]
  nOps,                 \* operations performed so far
  runs                  \* how the earlier GetBestIndexes runs ended: [pc, indexes]

ctxVars    == <<pool, memo_, oracle, calls, costLog, m, ndebug>>
pipeVars   == <<query_set_, qi, C, Ai>>
greedyVars == <<indexes, remaining_indexes, workload, k, current_index_count,
                global_min_cost, cur_min_cost, best_index, trace, result_set>>
poolLogs   == <<config, internLog, vecLog, mergeLog, nOps, runs>>
vars == <<pool, memo_, oracle, calls, costLog, m, ndebug, query_set_, qi, C,
          Ai, pc, indexes, remaining_indexes, workload, k,
          current_index_count, global_min_cost, cur_min_cost, best_index,
          trace, result_set, config, internLog, vecLog, mergeLog, nOps,
          runs>>

\* The objects a configuration's handles point to.
Deref(heap, cfg) == {heap[h] : h \in cfg}

Injections(S, T) == {f \in [S -> T] : \A x, y \in S : x # y => f[x] # f[y]}

\* ------------------------------------------------------------ Crossproduct

\* The (index, column) pairs in the order of Crossproduct's nested loops.
CrossPairs(cfg, single_column_indexes) ==
  LET is == SetToSeq(cfg)
      cs == SetToSeq(single_column_indexes)
      n  == Len(cs)
  IN  [p \in 1 .. (Len(is) * n) |->
         <<is[((p - 1) \div n) + 1], cs[((p - 1) % n) + 1]>>]

\* The merged objects Crossproduct hands to PutIndexObject.
CrossMerged(heap, cfg, single_column_indexes) ==
  {Merge(heap[i], heap[c]) :
     <<i, c>> \in {<<i, c>> \in cfg \X single_column_indexes :
                     IsCompatible(heap[i], heap[c])}}

\* The loop body of Crossproduct over the pairs still to visit; alloc gives
\* the address the allocator returns for each object that is new.
RECURSIVE CrossLoop(_, _, _, _, _)
CrossLoop(pairs, p, alloc, result, log) ==
  IF pairs = <<>> THEN [pool |-> p, result |-> result, log |-> log]
  ELSE LET index  == p.heap[Head(pairs)[1]]
           column == p.heap[Head(pairs)[2]]
       IN  IF ~IsCompatible(index, column)
           THEN CrossLoop(Tail(pairs), p, alloc, result, log)
           ELSE LET merged_index == Merge(index, column)
                    put == PutIndexObject(p, merged_index,
                             IF merged_index \in DOMAIN alloc
                             THEN alloc[merged_index] ELSE Null)
                IN  CrossLoop(Tail(pairs), put.pool, alloc,
                              result \cup {put.h},
                              log \cup {[left |-> index, right |-> column,
                                         merged |-> merged_index,
                                         h |-> put.h]})

\* IndexSelection::Crossproduct
Crossproduct(p, cfg, single_column_indexes, alloc) ==
  CrossLoop(CrossPairs(cfg, single_column_indexes), p, alloc, {}, {})

\* The objects of objs that map_ does not hold yet.
NewObjects(p, objs) == {o \in objs : GetIndexObject(p, o) = Null}

\* ------------------------------------------------- pool operations (SpecPool)

\* Column vectors an IndexObject is built from: one or two distinct columns
\* of one table, in either order.
\* The columns the pool operations draw from.
PoolColumns == {100, 101, 200}

ColumnVectors ==
  {<<c>> : c \in PoolColumns} \cup
  {<<c, d>> : <<c, d>> \in {<<c, d>> \in PoolColumns \X PoolColumns :
                              c # d /\ TableOf(c) = TableOf(d)}}

\* The oid triple (db, table, column) a column reference is bound to.
BoundOid(col) == <<DbOid, TableOf(col), col>>

\* IndexObjectPoolInsertHelper(tuple_col, config), oid being
\* tuple_col->GetBoundOid().
IndexObjectPoolInsertHelper(p, cfg, oid, a) ==
  LET iobj == IndexObject1(oid[1], oid[2], oid[3])
      r    == PoolIntern(p, iobj, a)
  IN  [pool |-> r.pool, config |-> cfg \cup {r.h}, obj |-> iobj, h |-> r.h]

\* The addresses the allocator may return for obj: none is asked for when
\* map_ holds the object.
AllocChoices(p, obj) ==
  IF GetIndexObject(p, obj) # Null THEN {Null} ELSE FreeAddrs(p)

idleGreedy ==
  /\ indexes = {} /\ remaining_indexes = {} /\ workload = <<>> /\ k = 0
  /\ current_index_count = 0 /\ global_min_cost = 0 /\ cur_min_cost = 0
  /\ best_index = Null /\ trace = <<>> /\ result_set = {}

idlePipe == query_set_ = <<>> /\ qi = 0 /\ C = {} /\ Ai = {}

idlePoolLogs ==
  /\ config = {} /\ internLog = {} /\ vecLog = {} /\ mergeLog = {} /\ nOps = 0
  /\ runs = <<>>

idleCtx ==
  /\ pool = EmptyPool /\ memo_ = <<>> /\ calls = <<>> /\ costLog = {}

InitPool ==
  /\ idleCtx /\ idleGreedy /\ idlePipe /\ idlePoolLogs
  /\ oracle = <<>> /\ m = 0 /\ ndebug = FALSE
  /\ pc = "pool"

\* A caller interns the single-column index of a column into config.
PoolInsert ==
  /\ pc = "pool" /\ nOps < MaxPoolOps
  /\ \E col \in PoolColumns :
       \E a \in AllocChoices(pool, IndexObject1(DbOid, TableOf(col), col)) :
         LET r == IndexObjectPoolInsertHelper(pool, config, BoundOid(col), a)
         IN  /\ pool' = r.pool
             /\ config' = r.config
             /\ internLog' = internLog \cup {[obj |-> r.obj, h |-> r.h]}
  /\ nOps' = nOps + 1
  /\ UNCHANGED <<memo_, oracle, calls, costLog, m, ndebug, pc, vecLog,
                 mergeLog, runs>>
  /\ UNCHANGED <<pipeVars, greedyVars>>

\* A caller builds an IndexObject from a column vector and puts it into the
\* pool.
PoolPutVector ==
  /\ pc = "pool" /\ nOps < MaxPoolOps
  /\ \E cols \in ColumnVectors :
       LET obj == IndexObjectVec(DbOid, TableOf(cols[1]), cols)
       IN  \E a \in AllocChoices(pool, obj) :
             LET r == PutIndexObject(pool, obj, a)
             IN  /\ pool' = r.pool
                 /\ internLog' = internLog \cup {[obj |-> obj, h |-> r.h]}
                 /\ vecLog' = vecLog \cup {[cols |-> cols, h |-> r.h]}
  /\ nOps' = nOps + 1
  /\ UNCHANGED <<memo_, oracle, calls, costLog, m, ndebug, pc, config,
                 mergeLog, runs>>
  /\ UNCHANGED <<pipeVars, greedyVars>>

\* GenMultiColumnIndexes(cfg, config): the cross product of a configuration
\* of pooled indexes with the single-column indexes interned so far.
PoolCrossproduct ==
  /\ pc = "pool" /\ nOps < MaxPoolOps
  /\ config # {}
  /\ \E cfg \in SUBSET (DOMAIN pool.heap) :
       LET new == NewObjects(pool, CrossMerged(pool.heap, cfg, config))
       IN  \E alloc \in Injections(new, FreeAddrs(pool)) :
             LET r == Crossproduct(pool, cfg, config, alloc)
             IN  /\ cfg # {}
                 /\ pool' = r.pool
                 /\ mergeLog' = mergeLog \cup r.log
                 /\ internLog' = internLog \cup
                      {[obj |-> e.merged, h |-> e.h] : e \in r.log}
  /\ nOps' = nOps + 1
  /\ UNCHANGED <<memo_, oracle, calls, costLog, m, ndebug, pc, config,
                 vecLog, runs>>
  /\ UNCHANGED <<pipeVars, greedyVars>>

NextPool == PoolInsert \/ PoolPutVector \/ PoolCrossproduct

SpecPool == InitPool /\ [][NextPool]_vars


\* ------------------------------------------------------------ pool claims

\* C4: for the lifetime of one pool, two interned objects have the same
\* handle if and only if they are equal, and no object is allocated twice:
\* interning a present object returns its handle, distinct objects never
\* share one.
PoolIdentity ==
  /\ \A e1, e2 \in internLog : (e1.h = e2.h) <=> IndexObjectEq(e1.obj, e2.obj)
  /\ \A a1, a2 \in DOMAIN pool.heap :
       IndexObjectEq(pool.heap[a1], pool.heap[a2]) => a1 = a2
  /\ \A e \in internLog : e.h \in DOMAIN pool.heap /\ pool.heap[e.h] = e.obj

\* An object was interned by IndexObjectPoolInsertHelper (its handle is in
\* config) and again by PutIndexObject (vecLog), beside a second object.
PoolIdentityWitness ==
  /\ \E v \in vecLog : v.h \in config
  /\ \E e1, e2 \in internLog : e1.h # e2.h

\* C5: index objects built from different column sequences, (a,b) and (b,a)
\* included, are different objects and are interned as different handles.
ColumnOrderSignificant ==
  \A v1, v2 \in vecLog :
    v1.cols # v2.cols =>
      /\ v1.h # v2.h
      /\ ~IndexObjectEq(pool.heap[v1.h], pool.heap[v2.h])

\* C6: the columns of merge(a,b) are a's columns in their order followed by
\* those of b not already present, in b's order; db_oid and table_oid are a's.
MergeAppendsRightColumns ==
  \A e \in mergeLog :
    LET Fresh(c) == c \notin e.left.column_oids
    IN  /\ ColumnsOf(e.merged)
             = ColumnsOf(e.left) \o SelectSeq(ColumnsOf(e.right), Fresh)
        /\ e.merged.db_oid = e.left.db_oid
        /\ e.merged.table_oid = e.left.table_oid


\* ------------------------------------------------------------------ GetCost

\* The costs the what-if oracle may report.
CostValues == {1, 2, 3}

\* The statements of a workload are referred to by pointer: 1, 2, ...
\* What the oracle is asked: the indexes of the configuration and the
\* statement.
OracleKey(heap, cfg, query) == <<Deref(heap, cfg), query>>

\* The oracle questions GetCost(cfg, wl) may ask.
OracleKeys(heap, cfg, wl) == {OracleKey(heap, cfg, wl[i]) : i \in DOMAIN wl}

\* KeyHasher: the hash of the statement alone (the part over the indexes is
\* commented out).
KeyHasher(key) == key[2]

\* std::equal_to on the memo's key: equal configurations, the same statement
\* pointer.
MemoKeyEq(k1, k2) == k1[1] = k2[1] /\ k1[2] = k2[2]

\* context_.memo_.find(state): the stored keys with state's hash that equal
\* state (none: end()).
MemoFind(memo, state) ==
  {key \in DOMAIN memo :
     KeyHasher(key) = KeyHasher(state) /\ MemoKeyEq(key, state)}

\* A GetCost that does not keep the oracle's answer: used only as a mutation
\* of MemoStore.
MemoStoreDropped(memo, state, cost) == memo

\* context_.memo_[state] = result->cost
MemoStore(memo, state, cost) == (state :> cost) @@ memo

Bump(f, key) ==
  IF key \in DOMAIN f THEN [f EXCEPT ![key] = @ + 1] ELSE (key :> 1) @@ f

\* The loop of GetCost over the queries still to visit. orc is the oracle,
\* cx = [memo, calls] the memo and the count of oracle calls so far.
RECURSIVE GetCostLoop(_, _, _, _, _, _)
GetCostLoop(queries, cfg, heap, orc, cx, cost) ==
  IF queries = <<>> THEN [cost |-> cost, memo |-> cx.memo, calls |-> cx.calls]
  ELSE LET query == Head(queries)
           state == <<cfg, query>>
           found == MemoFind(cx.memo, state)
       IN  IF found # {}
           THEN GetCostLoop(Tail(queries), cfg, heap, orc, cx,
                            cost + cx.memo[CHOOSE key \in found : TRUE])
           ELSE LET result == orc[OracleKey(heap, cfg, query)]
                IN  GetCostLoop(Tail(queries), cfg, heap, orc,
                                [memo  |-> MemoStore(cx.memo, state, result),
                                 calls |-> Bump(cx.calls, state)],
                                cost + result)

\* IndexSelection::GetCost
GetCost(cfg, wl, heap, orc, cx) == GetCostLoop(wl, cfg, heap, orc, cx, 0)

\* What the oracle says a configuration costs for a workload (no memo).
RECURSIVE OracleCost(_, _, _, _)
OracleCost(cfg, wl, heap, orc) ==
  IF wl = <<>> THEN 0
  ELSE orc[OracleKey(heap, cfg, Head(wl))] + OracleCost(cfg, Tail(wl), heap, orc)

\* How many oracle calls lie between the counts before and after.
RECURSIVE SumOver(_, _)
SumOver(f, keys) ==
  IF keys = {} THEN 0
  ELSE LET key == CHOOSE key \in keys : TRUE
       IN  f[key] + SumOver(f, keys \ {key})

Asked(before, after) ==
  SumOver(after, DOMAIN after) - SumOver(before, DOMAIN before)

\* The oracle with the answers ext to questions it was not asked before.
Extend(orc, ext) == ext @@ orc

\* The ways the oracle may answer the questions of keys it has no answer to
\* yet.
Answers(orc, keys) == [keys \ DOMAIN orc -> CostValues]

\* --------------------------------------------------- GetCost calls (SpecCost)

\* The workloads GetCost is called with: one or two statements, a statement
\* possibly twice.
CostWorkloads == {<<1>>, <<1, 2>>, <<1, 1>>}

\* A pool holding the single-column indexes of the columns cols (ascending),
\* the allocator having returned the addresses 1, 2, ...
RECURSIVE PoolOf(_, _)
PoolOf(cols, a) ==
  IF cols = <<>> THEN EmptyPool
  ELSE LET rest == PoolOf(Tail(cols), a + 1)
       IN  PutIndexObject(rest,
             IndexObject1(DbOid, TableOf(Head(cols)), Head(cols)), a).pool

InitCost ==
  /\ pool = PoolOf(<<100, 101>>, 1)
  /\ memo_ = <<>> /\ calls = <<>> /\ costLog = {} /\ oracle = <<>>
  /\ idleGreedy /\ idlePipe /\ idlePoolLogs
  /\ m = 0 /\ ndebug = FALSE
  /\ pc = "cost"

\* A caller asks GetCost(cfg, wl).
GetCostCall ==
  /\ pc = "cost" /\ nOps < MaxGetCostCalls
  /\ \E cfg \in SUBSET (DOMAIN pool.heap) : \E wl \in CostWorkloads :
       \E ext \in Answers(oracle, OracleKeys(pool.heap, cfg, wl)) :
         LET orc == Extend(oracle, ext)
             r   == GetCost(cfg, wl, pool.heap, orc,
                            [memo |-> memo_, calls |-> calls])
         IN  /\ oracle' = orc
             /\ memo_' = r.memo
             /\ calls' = r.calls
             /\ costLog' = costLog \cup
                  {[config |-> cfg, workload |-> wl, cost |-> r.cost,
                    asked |-> Asked(calls, r.calls)]}
  /\ nOps' = nOps + 1
  /\ UNCHANGED <<pool, m, ndebug, pc, config, internLog, vecLog, mergeLog,
                 runs>>
  /\ UNCHANGED <<pipeVars, greedyVars>>

NextCost == GetCostCall

SpecCost == InitCost /\ [][NextCost]_vars

\* C2: the oracle is asked at most once per (configuration, statement), and
\* a GetCost call repeated with an equal configuration and the same workload
\* returns what the first call returned.
MemoConsistency ==
  /\ \A key \in DOMAIN calls : calls[key] <= 1
  /\ \A e1, e2 \in costLog :
       (e1.config = e2.config /\ e1.workload = e2.workload)
       => e1.cost = e2.cost

\* GetCost was called with a configuration and a workload that holds one
\* statement twice, asking the oracle once, and called again with the same
\* arguments, not asking it.
MemoConsistencyWitness ==
  \E e1, e2 \in costLog :
    /\ e1.config = e2.config /\ e1.config # {}
    /\ e1.workload = <<1, 1>> /\ e2.workload = <<1, 1>>
    /\ e1.asked = 1 /\ e2.asked = 0
    /\ calls[<<e1.config, 1>>] = 1


\* ------------------------------------------------------------- GreedySearch

\* The for loop of GreedySearch over the handles of remaining_indexes still
\* to visit. st = [indexes, cur_min_cost, best_index, memo, calls].
RECURSIVE GreedyForLoop(_, _, _, _, _, _)
GreedyForLoop(rem, original_indexes, wl, heap, orc, st) ==
  IF rem = <<>> THEN st
  ELSE LET i    == Head(rem)
           idx  == original_indexes \cup {i}
           r    == GetCost(idx, wl, heap, orc,
                           [memo |-> st.memo, calls |-> st.calls])
           less == r.cost < st.cur_min_cost
       IN  GreedyForLoop(Tail(rem), original_indexes, wl, heap, orc,
             [indexes      |-> idx,
              cur_min_cost |-> IF less THEN r.cost ELSE st.cur_min_cost,
              best_index   |-> IF less THEN i ELSE st.best_index,
              memo         |-> r.memo,
              calls        |-> r.calls])

\* The oracle questions of one pass of the for loop.
GreedyForKeys(heap, original_indexes, rem, wl) ==
  UNION {OracleKeys(heap, original_indexes \cup {i}, wl) : i \in rem}

\* GreedySearch up to its while loop. Returns at once when
\* min_enumerate_count >= k.
GreedyEnter ==
  /\ pc = "GreedySearch"
  /\ current_index_count' = m
  /\ IF m >= k
     THEN /\ pc' = "GreedyDone"
          /\ UNCHANGED <<oracle, memo_, calls, global_min_cost, cur_min_cost>>
     ELSE \E ext \in Answers(oracle, OracleKeys(pool.heap, indexes, workload)) :
            LET orc == Extend(oracle, ext)
                r   == GetCost(indexes, workload, pool.heap, orc,
                               [memo |-> memo_, calls |-> calls])
            IN  /\ oracle' = orc
                /\ memo_' = r.memo
                /\ calls' = r.calls
                /\ global_min_cost' = r.cost
                /\ cur_min_cost' = r.cost
                /\ pc' = "GreedyLoop"
  /\ best_index' = Null
  /\ trace' = <<>>
  /\ UNCHANGED <<pool, costLog, m, ndebug, indexes, remaining_indexes,
                 workload, k, result_set>>
  /\ UNCHANGED <<pipeVars, poolLogs>>

\* One pass of GreedySearch's while loop: the for loop over
\* remaining_indexes, then the addition of best_index or the break. trace
\* gets, for this pass, what the oracle says the configuration held in
\* indexes costs before and after, and the handle added (Null: none).
GreedyIter ==
  /\ pc = "GreedyLoop"
  /\ \E ext \in Answers(oracle, GreedyForKeys(pool.heap, indexes,
                                               remaining_indexes, workload)) :
       LET orc1 == Extend(oracle, ext)
           st   == GreedyForLoop(SetToSeq(remaining_indexes), indexes,
                     workload, pool.heap, orc1,
                     [indexes |-> indexes, cur_min_cost |-> cur_min_cost,
                      best_index |-> best_index, memo |-> memo_,
                      calls |-> calls])
           add  == st.cur_min_cost < global_min_cost
           held == IF add THEN st.indexes \cup {st.best_index} ELSE st.indexes
           rest == IF add THEN remaining_indexes \ {st.best_index}
                   ELSE remaining_indexes
           cnt  == IF add THEN current_index_count + 1
                   ELSE current_index_count
       IN  /\ indexes' = held
           /\ remaining_indexes' = rest
           /\ current_index_count' = cnt
           /\ cur_min_cost' = st.cur_min_cost
           /\ best_index' = st.best_index
           /\ global_min_cost' = IF add THEN st.cur_min_cost
                                 ELSE global_min_cost
           /\ memo_' = st.memo
           /\ calls' = st.calls
           /\ pc' = IF add /\ rest # {} /\ cnt < k
                    THEN "GreedyLoop" ELSE "GreedyDone"
           /\ \E seen \in Answers(orc1, OracleKeys(pool.heap, held, workload)) :
                LET orc2 == Extend(orc1, seen)
                IN  /\ oracle' = orc2
                    /\ trace' = Append(trace,
                         [before |-> OracleCost(indexes, workload,
                                                pool.heap, orc2),
                          after  |-> OracleCost(held, workload,
                                                pool.heap, orc2),
                          added  |-> IF add THEN st.best_index ELSE Null,
                          start  |-> indexes,
                          tried  |-> remaining_indexes,
                          held   |-> held])
  /\ UNCHANGED <<pool, costLog, m, ndebug, workload, k, result_set>>
  /\ UNCHANGED <<pipeVars, poolLogs>>

\* ------------------------------------------- GreedySearch calls (SpecGreedy)

\* The columns whose single-column indexes GreedySearch is called with.
GreedyColumns == {100, 101, 102}

\* The pools that hold the single-column indexes of the columns cols, each
\* at an address of its own.
PoolsOf(cols, addrs) ==
  {[heap |-> [a \in {f[c] : c \in cols} |->
                IndexObject1(DbOid, TableOf(CHOOSE c \in cols : f[c] = a),
                             CHOOSE c \in cols : f[c] = a)],
    map  |-> [o \in {IndexObject1(DbOid, TableOf(c), c) : c \in cols} |->
                f[CHOOSE c \in cols : o.column_oids = {c}]]] :
     f \in Injections(cols, addrs)}

\* The k and the min_enumerate_count GreedySearch is called with.
GreedyKs == {1, 2, 3}
GreedyMs == {1, 2}

InitGreedy ==
  /\ pool \in PoolsOf(GreedyColumns, 1 .. Cardinality(GreedyColumns))
  /\ memo_ = <<>> /\ calls = <<>> /\ costLog = {} /\ oracle = <<>>
  /\ idlePipe /\ idlePoolLogs
  /\ ndebug = FALSE
  /\ m \in GreedyMs
  /\ k \in GreedyKs
  /\ indexes \in SUBSET (DOMAIN pool.heap)
  /\ remaining_indexes \in SUBSET (DOMAIN pool.heap \ indexes)
  /\ workload = <<1>>
  /\ current_index_count = 0 /\ global_min_cost = 0 /\ cur_min_cost = 0
  /\ best_index = Null /\ trace = <<>> /\ result_set = {}
  /\ pc = "GreedySearch"

NextGreedy == GreedyEnter \/ GreedyIter

SpecGreedy == InitGreedy /\ [][NextGreedy]_vars

\* C3: in every pass of GreedySearch's loop the cost of the configuration
\* held in indexes does not increase, and it decreases strictly when the
\* pass added a handle.
GreedyMonotone ==
  \A i \in DOMAIN trace :
    /\ trace[i].after <= trace[i].before
    /\ trace[i].added # Null => trace[i].after < trace[i].before


\* The canonical form of an index object, "db/table/c1,c2,...", as the
\* sequence of its numbers. The oids of the model's catalog have the same
\* number of digits per position, so the order of the strings is the
\* lexicographic order of these sequences.
CanonicalKey(obj) == <<obj.db_oid, obj.table_oid>> \o ColumnsOf(obj)

RECURSIVE SeqLess(_, _)
SeqLess(s, t) ==
  IF t = <<>> THEN FALSE
  ELSE IF s = <<>> THEN TRUE
  ELSE IF Head(s) # Head(t) THEN Head(s) < Head(t)
  ELSE SeqLess(Tail(s), Tail(t))

\* a sorts before b by canonical string.
CanonicalLess(a, b) == SeqLess(CanonicalKey(a), CanonicalKey(b))

\* C11: when a pass of GreedySearch adds a handle and another handle of
\* remaining_indexes gives the same cost, the handle added is the one whose
\* canonical string sorts earlier.
GreedyTieCanonical ==
  \A n \in DOMAIN trace :
    LET e == trace[n]
        CostWith(i) == OracleCost(e.start \cup {i}, workload, pool.heap, oracle)
    IN  (e.added # Null /\ e.added \in e.tried) =>
          \A i \in e.tried :
            CostWith(i) = CostWith(e.added) =>
              ~CanonicalLess(pool.heap[i], pool.heap[e.added])


\* ----------------------------------------------------- ExhaustiveEnumeration

\* Whether the comparator of std::set<IndexConfiguration, Comp> takes two
\* configurations for the same element.
CompEquiv(c1, c2) == c1 = c2

\* std::set<IndexConfiguration, Comp>::insert
ConfigSetInsert(S, c) == IF \E d \in S : CompEquiv(d, c) THEN S ELSE S \cup {c}

RECURSIVE ConfigSetInsertAll(_, _)
ConfigSetInsertAll(S, T) ==
  IF T = {} THEN S
  ELSE LET c == CHOOSE c \in T : TRUE
       IN  ConfigSetInsertAll(ConfigSetInsert(S, c), T \ {c})

\* The loop of ExhaustiveEnumeration over the handles still to visit: every
\* configuration of the snapshot temp_set grows by the handle i and goes to
\* result_set when it has min_enumerate_count members, to running_set
\* otherwise.
RECURSIVE ExhaustiveLoop(_, _, _, _)
ExhaustiveLoop(idx, running_set, rs, mm) ==
  IF idx = <<>> THEN [running_set |-> running_set, result_set |-> rs]
  ELSE LET i        == Head(idx)
           temp_set == running_set
           grown    == {t \cup {i} : t \in temp_set}
           full     == {e \in grown : Cardinality(e) >= mm}
       IN  ExhaustiveLoop(Tail(idx),
                          ConfigSetInsertAll(running_set, grown \ full),
                          ConfigSetInsertAll(rs, full), mm)

\* result_set without the final insertion of running_set.
ExhaustiveResultOnly(idxs, mm) ==
  ExhaustiveLoop(SetToSeq(idxs), {{}}, {}, mm).result_set

\* result_set at the end of ExhaustiveEnumeration: running_set is inserted
\* and the empty configuration erased.
ExhaustiveResultSet(idxs, mm) ==
  LET r == ExhaustiveLoop(SetToSeq(idxs), {{}}, {}, mm)
  IN  {c \in ConfigSetInsertAll(r.result_set, r.running_set) :
         ~CompEquiv(c, {})}

\* A seed that holds the first candidate only.
ExhaustiveFirstOnly(idxs, mm) ==
  {x \in idxs : \A y \in idxs : x <= y}

\* IndexSelection::ExhaustiveEnumeration (after its assert): top_indexes, to
\* which every configuration of result_set is added.
ExhaustiveEnumeration(idxs, mm) == UNION ExhaustiveResultSet(idxs, mm)

\* IndexSelection::GetRemainingIndexes
GetRemainingIndexes(idxs, top_indexes) == idxs \ top_indexes

\* Enumerate up to its call of GreedySearch. Ai holds Enumerate's indexes.
\* The assert of ExhaustiveEnumeration ends the process when the build keeps
\* asserts.
EnumerateCall ==
  /\ pc = "Enumerate"
  /\ IF ~ndebug /\ ~(m <= Cardinality(Ai))
     THEN /\ pc' = "Aborted"
          /\ UNCHANGED <<indexes, remaining_indexes, result_set>>
     ELSE LET top_indexes == ExhaustiveEnumeration(Ai, m)
          IN  /\ result_set' = ExhaustiveResultSet(Ai, m)
              /\ indexes' = top_indexes
              /\ remaining_indexes' = GetRemainingIndexes(Ai, top_indexes)
              /\ pc' = "GreedySearch"
  /\ UNCHANGED <<ctxVars, pipeVars, poolLogs>>
  /\ UNCHANGED <<workload, k, current_index_count, global_min_cost,
                 cur_min_cost, best_index, trace>>

\* ------------------------------------------------ Enumerate calls (SpecEnum)

\* The columns whose single-column indexes Enumerate is called with.
EnumColumnSets == {{100}, {100, 101}, {100, 101, 102}}
EnumMs == {1, 2, 3}

\* The oracles Enumerate is called with, over the objects objs and the
\* statement 1: every oracle when there are at most two objects, every
\* oracle whose answer depends on the number of indexes alone otherwise.
EnumOracles(objs) ==
  LET keys == {<<S, 1>> : S \in SUBSET objs}
  IN  IF Cardinality(objs) <= 2
      THEN [keys -> CostValues]
      ELSE {[key \in keys |-> f[Cardinality(key[1])]] :
              f \in [0 .. Cardinality(objs) -> CostValues]}

InitEnum ==
  /\ \E cols \in EnumColumnSets : pool \in PoolsOf(cols, 1 .. Cardinality(cols))
  /\ oracle \in EnumOracles(DOMAIN pool.map)
  /\ memo_ = <<>> /\ calls = <<>> /\ costLog = {}
  /\ idlePoolLogs
  /\ query_set_ = <<>> /\ qi = 0 /\ C = {}
  /\ Ai = DOMAIN pool.heap
  /\ ndebug \in BOOLEAN
  /\ m \in EnumMs
  /\ k \in GreedyKs
  /\ workload = <<1>>
  /\ indexes = {} /\ remaining_indexes = {}
  /\ current_index_count = 0 /\ global_min_cost = 0 /\ cur_min_cost = 0
  /\ best_index = Null /\ trace = <<>> /\ result_set = {}
  /\ pc = "Enumerate"

NextEnum == EnumerateCall \/ GreedyEnter \/ GreedyIter

SpecEnum == InitEnum /\ [][NextEnum]_vars

\* The configuration Enumerate returns has been computed: GreedySearch
\* returned indexes.
EnumerateReturns == pc = "GreedyDone"

\* C1: the configuration Enumerate(candidates, {q}, k) returns has at most k
\* members.
EnumerateAtMostK == EnumerateReturns => Cardinality(indexes) <= k

\* The non-empty subsets of the candidates of at most n members.
SubsetsUpTo(S, n) == {T \in SUBSET S : T # {} /\ Cardinality(T) <= n}

\* C10: when min_enumerate_count >= k, Enumerate returns one subset of the
\* candidates of at most k members whose cost is minimal among the non-empty
\* subsets of at most k members.
EnumerateCheapestSeed ==
  (EnumerateReturns /\ m >= k) =>
    /\ indexes \in SubsetsUpTo(Ai, k)
    /\ \A T \in SubsetsUpTo(Ai, k) :
         OracleCost(indexes, workload, pool.heap, oracle)
           <= OracleCost(T, workload, pool.heap, oracle)


\* ------------------------------------------------------ bound SQL statements

NoOid == <<0, 0, 0>>

\* Expressions: a column reference (bound or not), a constant, a function
\* call, a comparison or a conjunction of two expressions; NoExpr is nullptr.
NoExpr == [type |-> "NULLPTR", oid |-> NoOid, bound |-> FALSE, children |-> <<>>]
TupleValue(col) ==
  [type |-> "VALUE_TUPLE", oid |-> BoundOid(col), bound |-> TRUE,
   children |-> <<>>]
UnboundTupleValue ==
  [type |-> "VALUE_TUPLE", oid |-> NoOid, bound |-> FALSE, children |-> <<>>]
ConstantValue ==
  [type |-> "VALUE_CONSTANT", oid |-> NoOid, bound |-> FALSE, children |-> <<>>]
FunctionOf(arg) ==
  [type |-> "FUNCTION", oid |-> NoOid, bound |-> FALSE, children |-> <<arg>>]
Op(type, left, right) ==
  [type |-> type, oid |-> NoOid, bound |-> FALSE, children |-> <<left, right>>]

NotOf(arg) ==
  [type |-> "OPERATOR_NOT", oid |-> NoOid, bound |-> FALSE,
   children |-> <<arg>>]

CreateTable ==
  [type |-> "CREATE", where |-> NoExpr, order |-> <<>>, group |-> <<>>,
   select |-> FALSE]

Select(where, order, group) ==
  [type |-> "SELECT", where |-> where, order |-> order, group |-> group,
   select |-> FALSE]
Delete(where) ==
  [type |-> "DELETE", where |-> where, order |-> <<>>, group |-> <<>>,
   select |-> FALSE]

\* The statements a workload points to:
\*   1  SELECT * FROM t WHERE a = 1
\*   2  SELECT * FROM t WHERE a = 1 AND b = 2
\*   3  SELECT a FROM t ORDER BY c
\*   4  SELECT * FROM t WHERE f(a) = 1
\*   5  DELETE FROM u WHERE x = 1
\*   6  SELECT * FROM t WHERE z = 1, which the binder has not bound
\*   7  SELECT c FROM t WHERE (a = 1 OR 2 < b) AND a LIKE 'x'
\*        GROUP BY c ORDER BY a
\*   8  SELECT a FROM t ORDER BY z, which the binder has not bound
\*   9  SELECT * FROM t WHERE a = 1 AND NOT (b = 2)
\*  10  CREATE TABLE v (...)
Statements ==
  << Select(Op("COMPARE_EQUAL", TupleValue(100), ConstantValue), <<>>, <<>>),
     Select(Op("CONJUNCTION_AND",
               Op("COMPARE_EQUAL", TupleValue(100), ConstantValue),
               Op("COMPARE_EQUAL", TupleValue(101), ConstantValue)),
            <<>>, <<>>),
     Select(NoExpr, <<TupleValue(102)>>, <<>>),
     Select(Op("COMPARE_EQUAL", FunctionOf(TupleValue(100)), ConstantValue),
            <<>>, <<>>),
     Delete(Op("COMPARE_EQUAL", TupleValue(200), ConstantValue)),
     Select(Op("COMPARE_EQUAL", UnboundTupleValue, ConstantValue),
            <<>>, <<>>),
     Select(Op("CONJUNCTION_AND",
               Op("CONJUNCTION_OR",
                  Op("COMPARE_EQUAL", TupleValue(100), ConstantValue),
                  Op("COMPARE_LESSTHAN", ConstantValue, TupleValue(101))),
               Op("COMPARE_LIKE", TupleValue(100), ConstantValue)),
            <<TupleValue(100)>>, <<TupleValue(102)>>),
     Select(NoExpr, <<UnboundTupleValue>>, <<>>),
     Select(Op("CONJUNCTION_AND",
               Op("COMPARE_EQUAL", TupleValue(100), ConstantValue),
               NotOf(Op("COMPARE_EQUAL", TupleValue(101), ConstantValue))),
            <<>>, <<>>),
     CreateTable >>

\* ------------------------------------------------------ GetAdmissibleIndexes

CompareTypes ==
  {"COMPARE_EQUAL", "COMPARE_NOTEQUAL", "COMPARE_GREATERTHAN",
   "COMPARE_GREATERTHANOREQUALTO", "COMPARE_LESSTHAN",
   "COMPARE_LESSTHANOREQUALTO", "COMPARE_LIKE", "COMPARE_NOTLIKE",
   "COMPARE_IN"}

\* What a helper of GetAdmissibleIndexes did: the oids it handed to
\* IndexObjectPoolInsertHelper, in order, and how it ended: "none" (it
\* returned), "assert" (an assert failed in a build that keeps asserts) or
\* "crash" (a null pointer was dereferenced and the process died).
Parsed(oids) == [fault |-> "none", oids |-> oids]
Faulted(kind) == [fault |-> kind, oids |-> <<>>]

\* A where helper that does not descend into the right child of a
\* conjunction.
RECURSIVE WhereLeftChildOnly(_, _, _)
WhereLeftChildOnly(where_expr, nd, survive) ==
  IF where_expr.type \in {"CONJUNCTION_AND", "CONJUNCTION_OR"}
  THEN WhereLeftChildOnly(where_expr.children[1], nd, survive)
  ELSE IF where_expr.type \in CompareTypes
            /\ where_expr.children[1].type = "VALUE_TUPLE"
  THEN [fault |-> "none", oids |-> <<where_expr.children[1].oid>>]
  ELSE [fault |-> "none", oids |-> <<>>]

\* IndexColsParseWhereHelper. nd: the build drops asserts. survive: a
\* dereference of a null tuple_child does not kill the process (the
\* expression then contributes nothing).
RECURSIVE IndexColsParseWhereHelper(_, _, _)
IndexColsParseWhereHelper(where_expr, nd, survive) ==
  IF where_expr.type = "NULLPTR" THEN Parsed(<<>>)
  ELSE IF where_expr.type \in CompareTypes
  THEN LET left_child  == where_expr.children[1]
           right_child == where_expr.children[2]
           left_tuple  == left_child.type = "VALUE_TUPLE"
           asserted    == IF left_tuple
                          THEN right_child.type # "VALUE_TUPLE"
                          ELSE right_child.type = "VALUE_TUPLE"
           tuple_child == IF left_tuple THEN left_child ELSE right_child
       IN  IF ~asserted /\ ~nd THEN Faulted("assert")
           ELSE IF tuple_child.type # "VALUE_TUPLE"
           THEN (IF survive THEN Parsed(<<>>) ELSE Faulted("crash"))
           ELSE IF ~tuple_child.bound /\ ~nd THEN Faulted("assert")
           ELSE Parsed(<<tuple_child.oid>>)
  ELSE IF where_expr.type \in {"CONJUNCTION_AND", "CONJUNCTION_OR"}
  THEN LET l == IndexColsParseWhereHelper(where_expr.children[1], nd, survive)
       IN  IF l.fault # "none" THEN l
           ELSE LET r == IndexColsParseWhereHelper(where_expr.children[2],
                                                   nd, survive)
                IN  IF r.fault # "none" THEN r ELSE Parsed(l.oids \o r.oids)
  ELSE IF nd THEN Parsed(<<>>) ELSE Faulted("assert")

\* IndexColsParseGroupByHelper and IndexColsParseOrderByHelper over the
\* expressions still to visit: each is asserted to be a column reference,
\* cast to one and handed on.
RECURSIVE IndexColsParseColumnsHelper(_, _)
IndexColsParseColumnsHelper(exprs, nd) ==
  IF exprs = <<>> THEN Parsed(<<>>)
  ELSE IF Head(exprs).type # "VALUE_TUPLE" /\ ~nd THEN Faulted("assert")
  ELSE LET rest == IndexColsParseColumnsHelper(Tail(exprs), nd)
       IN  IF rest.fault # "none" THEN rest
           ELSE Parsed(<<Head(exprs).oid>> \o rest.oids)

\* One helper after the other.
Then(a, b) ==
  IF a.fault # "none" THEN a
  ELSE IF b.fault # "none" THEN b
  ELSE Parsed(a.oids \o b.oids)

\* IndexSelection::GetAdmissibleIndexes, up to the pool.
GetAdmissibleIndexes(query, nd, survive) ==
  CASE query.type = "INSERT" ->
         IF query.select
         THEN IndexColsParseWhereHelper(query.where, nd, survive)
         ELSE Parsed(<<>>)
    [] query.type \in {"DELETE", "UPDATE"} ->
         IndexColsParseWhereHelper(query.where, nd, survive)
    [] query.type = "SELECT" ->
         Then(IndexColsParseWhereHelper(query.where, nd, survive),
              Then(IndexColsParseColumnsHelper(query.order, nd),
                   IndexColsParseColumnsHelper(query.group, nd)))
    [] OTHER -> IF nd THEN Parsed(<<>>) ELSE Faulted("assert")

\* IndexObjectPoolInsertHelper for each of the oids still to insert; alloc
\* gives the address the allocator returns for each object that is new.
RECURSIVE InsertAll(_, _, _, _)
InsertAll(oids, p, cfg, alloc) ==
  IF oids = <<>> THEN [pool |-> p, config |-> cfg]
  ELSE LET iobj == IndexObject1(Head(oids)[1], Head(oids)[2], Head(oids)[3])
           r    == IndexObjectPoolInsertHelper(p, cfg, Head(oids),
                     IF iobj \in DOMAIN alloc THEN alloc[iobj] ELSE Null)
       IN  InsertAll(Tail(oids), r.pool, r.config, alloc)

\* ---------------------------------------------------------- GetBestIndexes

\* How a run of GetBestIndexes can have ended: it returned C, an assert
\* ended the process, or the process died of a bad memory access.
Terminal == {"Done", "Aborted", "Crashed"}

\* The body of GetBestIndexes' loop up to the call of Enumerate, for the
\* next query: GetAdmissibleIndexes(query, Ai), Wi.AddQuery(query) and the
\* arguments of Enumerate(Ai, Wi, 4).
QueryAdmissible ==
  /\ pc = "GetBestIndexes" /\ qi < Len(query_set_)
  /\ \E survive \in BOOLEAN :
       LET query == query_set_[qi + 1]
           r     == GetAdmissibleIndexes(Statements[query], ndebug, survive)
           objs  == {IndexObject1(o[1], o[2], o[3]) : o \in Range(r.oids)}
       IN  IF r.fault # "none"
           THEN /\ pc' = IF r.fault = "assert" THEN "Aborted" ELSE "Crashed"
                /\ UNCHANGED <<pool, qi, Ai, workload, k>>
           ELSE \E alloc \in Injections(NewObjects(pool, objs),
                                        FreeAddrs(pool)) :
                  LET ins == InsertAll(r.oids, pool, {}, alloc)
                  IN  /\ pool' = ins.pool
                      /\ Ai' = ins.config
                      /\ workload' = <<query>>
                      /\ k' = NumIndexesArg
                      /\ qi' = qi + 1
                      /\ pc' = "Enumerate"
  /\ UNCHANGED <<memo_, oracle, calls, costLog, m, ndebug, query_set_, C>>
  /\ UNCHANGED <<indexes, remaining_indexes, current_index_count,
                 global_min_cost, cur_min_cost, best_index, trace, result_set>>
  /\ UNCHANGED poolLogs

\* What the copy assignment Ci = Enumerate(Ai, Wi, 4) can read. Enumerate
\* returns the reference GreedySearch returns, which is to Enumerate's own
\* local top_indexes, destroyed when Enumerate returns: the read is of a
\* dead object. It can find the set as GreedySearch left it, find any other
\* set of live handles, or end the process.
DanglingRead(top_indexes, heap) ==
  {[crash |-> FALSE, value |-> v] : v \in {top_indexes} \cup SUBSET (DOMAIN heap)}
    \cup {[crash |-> TRUE, value |-> {}]}

\* The rest of the loop body: Ci = Enumerate(...) and C->Add(Ci).
EnumerateReturn ==
  /\ pc = "GreedyDone" /\ qi > 0
  /\ \E Ci \in DanglingRead(indexes, pool.heap) :
       IF Ci.crash
       THEN pc' = "Crashed" /\ C' = C
       ELSE pc' = "GetBestIndexes" /\ C' = C \cup Ci.value
  /\ UNCHANGED <<ctxVars, query_set_, qi, Ai, greedyVars, poolLogs>>

\* GetBestIndexes returns C.
GetBestIndexesReturn ==
  /\ pc = "GetBestIndexes" /\ qi = Len(query_set_)
  /\ pc' = "Done"
  /\ UNCHANGED <<ctxVars, pipeVars, greedyVars, poolLogs>>

\* The workloads GetBestIndexes is run on (pointers into Statements).
PipeWorkloads ==
  {<<>>, <<1>>, <<2>>, <<3>>, <<4>>, <<5>>, <<1, 2>>, <<2, 1>>, <<1, 1>>,
   <<3, 5>>, <<1, 4>>, <<6>>, <<7>>, <<8>>, <<9>>, <<10>>}

\* The single-column indexes of the catalog's columns the statements name.
PipeObjects ==
  {IndexObject1(DbOid, TableOf(c), c) : c \in {100, 101, 102, 200}}

\* The what-if oracles of the runs, over the statements of the workload ws:
\*   SingleBest     the empty configuration costs 100, every index adds 10
\*   Flat           every configuration costs 50
\*   CompositeBest  only a configuration with a multi-column index is cheap
PipeCost(name, S) ==
  CASE name = "SingleBest" -> IF S = {} THEN 100 ELSE 10 * Cardinality(S)
    [] name = "Flat" -> 50
    [] name = "CompositeBest" ->
         IF \E o \in S : Cardinality(o.column_oids) > 1 THEN 5
         ELSE IF S = {} THEN 100 ELSE 60

PipeOracle(name, ws) ==
  [key \in (SUBSET PipeObjects) \X Range(ws) |-> PipeCost(name, key[1])]

PipeOracleNames == {"SingleBest", "Flat", "CompositeBest"}

Init ==
  /\ idleCtx /\ idleGreedy /\ idlePoolLogs
  /\ query_set_ \in PipeWorkloads
  /\ \E name \in PipeOracleNames : oracle = PipeOracle(name, query_set_)
  /\ m \in GreedyMs
  /\ ndebug \in BOOLEAN
  /\ qi = 0 /\ C = {} /\ Ai = {}
  /\ pc = "GetBestIndexes"

Next ==
  \/ QueryAdmissible
  \/ EnumerateCall
  \/ GreedyEnter
  \/ GreedyIter
  \/ EnumerateReturn
  \/ GetBestIndexesReturn

Spec == Init /\ [][Next]_vars

\* C8: with m = 2, the one query SELECT * FROM t WHERE a = 1 and the oracle
\* cost({}) = 100, cost({(t,a)}) = 10, GetBestIndexes ends by returning
\* exactly the configuration that holds the index (1, 10, [100]).
SingleColumnWhere ==
  (/\ m = 2 /\ query_set_ = <<1>>
   /\ oracle = PipeOracle("SingleBest", <<1>>)
   /\ pc \in Terminal)
    => /\ pc = "Done"
       /\ Deref(pool.heap, C) = {IndexObject1(DbOid, 10, 100)}

\* C9: for the one query WHERE a = 1 AND b = 2 the two-column index (a, b)
\* is among the candidates Enumerate is called with, and with the oracle for
\* which only the composite index is cheap GetBestIndexes returns exactly
\* {(a, b)}.
MultiColumnGrowth ==
  (/\ query_set_ = <<2>>
   /\ oracle = PipeOracle("CompositeBest", <<2>>))
    => /\ pc = "Enumerate"
            => IndexObjectVec(DbOid, 10, <<100, 101>>) \in Deref(pool.heap, Ai)
       /\ pc = "Done"
            => Deref(pool.heap, C) = {IndexObjectVec(DbOid, 10, <<100, 101>>)}

\* ------------------------------------------- two runs on the same inputs

\* GetBestIndexes has returned or the process has ended: what happened is
\* kept in runs, and a second run starts on the same workload, knobs and
\* oracle, with a pool and a memo as empty as the first run's.
Rerun ==
  /\ pc \in Terminal /\ runs = <<>>
  /\ runs' = <<[pc |-> pc, indexes |-> Deref(pool.heap, C)]>>
  /\ pool' = EmptyPool /\ memo_' = <<>> /\ calls' = <<>>
  /\ qi' = 0 /\ C' = {} /\ Ai' = {}
  /\ indexes' = {} /\ remaining_indexes' = {} /\ workload' = <<>> /\ k' = 0
  /\ current_index_count' = 0 /\ global_min_cost' = 0 /\ cur_min_cost' = 0
  /\ best_index' = Null /\ trace' = <<>> /\ result_set' = {}
  /\ pc' = "GetBestIndexes"
  /\ UNCHANGED <<oracle, costLog, m, ndebug, query_set_, config, internLog,
                 vecLog, mergeLog, nOps>>

NextDet ==
  \/ QueryAdmissible
  \/ EnumerateCall
  \/ GreedyEnter
  \/ GreedyIter
  \/ EnumerateReturn
  \/ GetBestIndexesReturn
  \/ Rerun

SpecDet == Init /\ [][NextDet]_vars

\* The statements GetAdmissibleIndexes supports: bound, and with nothing but
\* comparisons of a column with a value in their WHERE clause.
SupportedStatements == {1, 2, 3, 5, 7}

\* C7: two runs of GetBestIndexes on the same workload (of supported
\* statements), knobs, initial pool and oracle end the same way and return
\* the same configuration.
DeterministicRuns ==
  (/\ Range(query_set_) \subseteq SupportedStatements
   /\ Len(runs) = 1 /\ pc \in Terminal)
    => /\ runs[1].pc = pc
       /\ runs[1].indexes = Deref(pool.heap, C)

\* --------------------------------------------------- admissible columns

\* The oids of the column references that are the column side of a
\* comparison in the AND/OR tree of a WHERE clause.
RECURSIVE WhereColumns(_)
WhereColumns(e) ==
  IF e.type \in {"CONJUNCTION_AND", "CONJUNCTION_OR"}
  THEN WhereColumns(e.children[1]) \cup WhereColumns(e.children[2])
  ELSE IF e.type \in CompareTypes
  THEN {c.oid : c \in {c \in Range(e.children) : c.type = "VALUE_TUPLE"}}
  ELSE {}

\* The oids of the columns a statement names in WHERE, GROUP BY and ORDER BY.
AdmissibleColumns(query) ==
  WhereColumns(query.where)
    \cup {e.oid : e \in Range(query.order)}
    \cup {e.oid : e \in Range(query.group)}

\* The statement GetAdmissibleIndexes has just worked on.
CurrentStatement == Statements[query_set_[qi]]

\* C12: for a (supported) SELECT statement GetAdmissibleIndexes outputs
\* exactly the single-column keys of the columns of its WHERE comparisons,
\* GROUP BY and ORDER BY, one handle per column, and the pool holds one
\* single-column object per column named so far and nothing else.
AdmissibleExact ==
  (/\ pc = "Enumerate" /\ query_set_ # <<>> /\ qi > 0
   /\ query_set_[qi] \in SupportedStatements
   /\ CurrentStatement.type = "SELECT")
    => /\ Deref(pool.heap, Ai)
            = {IndexObject1(o[1], o[2], o[3]) :
                 o \in AdmissibleColumns(CurrentStatement)}
       /\ Cardinality(Ai) = Cardinality(AdmissibleColumns(CurrentStatement))
       /\ \A a \in DOMAIN pool.heap :
            /\ pool.map[pool.heap[a]] = a
            /\ \E n \in 1 .. qi :
                 \E o \in AdmissibleColumns(Statements[query_set_[n]]) :
                   pool.heap[a] = IndexObject1(o[1], o[2], o[3])

\* The admissible indexes of statement 7 were extracted: columns under OR
\* and AND, a column on the right of a comparison, a column named three
\* times, GROUP BY and ORDER BY.
AdmissibleExactWitness ==
  /\ pc = "Enumerate" /\ qi = 1 /\ query_set_ = <<7>>
  /\ Cardinality(Ai) = 3

\* ------------------------------------------------------- unbound columns

\* An expression tree holds a column reference the binder has not bound.
RECURSIVE HasUnboundColumn(_)
HasUnboundColumn(e) ==
  \/ e.type = "VALUE_TUPLE" /\ ~e.bound
  \/ \E i \in DOMAIN e.children : HasUnboundColumn(e.children[i])

\* A statement names an unbound column in WHERE, GROUP BY or ORDER BY.
StatementUnbound(query) ==
  \/ HasUnboundColumn(query.where)
  \/ \E e \in Range(query.order) : HasUnboundColumn(e)
  \/ \E e \in Range(query.group) : HasUnboundColumn(e)

\* C13: GetAdmissibleIndexes never gets past a statement with an unbound
\* column reference, in WHERE, GROUP BY or ORDER BY, and no index object is
\* made from the oid of an unbound reference.
UnboundColumnFails ==
  /\ \A n \in 1 .. qi : ~StatementUnbound(Statements[query_set_[n]])
  /\ \A a \in DOMAIN pool.heap :
       pool.heap[a] # IndexObject1(NoOid[1], NoOid[2], NoOid[3])

\* ------------------------------------------------ unsupported statements

\* The AND/OR tree of a WHERE clause holds a node that is neither AND, OR
\* nor one of the allowed comparisons.
RECURSIVE WhereUnsupported(_)
WhereUnsupported(e) ==
  IF e.type = "NULLPTR" THEN FALSE
  ELSE IF e.type \in {"CONJUNCTION_AND", "CONJUNCTION_OR"}
  THEN WhereUnsupported(e.children[1]) \/ WhereUnsupported(e.children[2])
  ELSE e.type \notin CompareTypes

\* A statement is DDL, or its WHERE clause holds an unsupported node.
StatementUnsupported(query) ==
  \/ query.type \notin {"INSERT", "DELETE", "UPDATE", "SELECT"}
  \/ WhereUnsupported(query.where)

\* C14: GetBestIndexes never gets past a DDL statement or a statement whose
\* WHERE tree holds an unsupported node, and returns no configuration for a
\* workload that holds one.
UnsupportedFails ==
  /\ \A n \in 1 .. qi : ~StatementUnsupported(Statements[query_set_[n]])
  /\ pc = "Done" =>
       \A n \in DOMAIN query_set_ :
         ~StatementUnsupported(Statements[query_set_[n]])

\* ------------------------------------------------------------------ knobs

\* The knobs violate the precondition 0 < m <= k.
InvalidKnobs == m > k \/ m <= 0 \/ k <= 0

\* C15: with knobs that violate the precondition the search is rejected:
\* Enumerate returns no configuration, and the oracle is not consulted.
InvalidKnobsRejected ==
  InvalidKnobs => /\ ~EnumerateReturns
                  /\ \A key \in DOMAIN calls : calls[key] = 0

\* ----------------------------------------------------- GreedySearch result

\* C16: the configuration GreedySearch returns is the seed configuration
\* plus the handles its passes added as improving: a handle that was only
\* tried is not in it.
GreedyResultExact ==
  (pc = "GreedyDone" /\ trace # <<>>) =>
    indexes = trace[1].start
                \cup ({trace[n].added : n \in DOMAIN trace} \ {Null})

\* ------------------------------------------- ExhaustiveEnumeration result

\* ExhaustiveEnumeration has run for the candidates Ai.
Enumerated == pc \in {"GreedySearch", "GreedyLoop", "GreedyDone"}

\* C17: at the end of ExhaustiveEnumeration's expansion, result_set (with
\* running_set merged in and the empty configuration erased) is exactly the
\* set of the non-empty subsets of the candidates of at most
\* min_enumerate_count members.
ExhaustiveAllSmallSubsets == Enumerated => result_set = SubsetsUpTo(Ai, m)

\* Three candidates were enumerated with min_enumerate_count = 2: three
\* subsets of one member from running_set, three of two from result_set.
ExhaustiveAllSmallSubsetsWitness ==
  /\ pc = "GreedySearch" /\ Cardinality(Ai) = 3 /\ m = 2
  /\ Cardinality(result_set) = 6

\* ------------------------------------------------------ Crossproduct result

\* C18: every member of a Crossproduct is the merge of two different
\* objects of one table: no object is merged with itself, so the cross
\* product of single-column indexes holds no single-column index, and no
\* index mixes the columns of two tables.
CrossproductSkipsSelf ==
  \A e \in mergeLog :
    /\ e.left # e.right
    /\ e.left.db_oid = e.right.db_oid /\ e.left.table_oid = e.right.table_oid
    /\ Cardinality(e.merged.column_oids) > 1
    /\ \A c \in e.merged.column_oids : TableOf(c) = e.merged.table_oid

\* ------------------------------------------------------- seed and greedy

MaxPasses == IF k > m THEN k - m ELSE 0

\* C20: on a workload of supported statements a run of GetBestIndexes ends
\* in no other way than by returning C, and GreedySearch's loop makes at
\* most k - m passes. (A run that has ended takes no further step: one that
\* ended without returning never completes.)
GetBestIndexesCompletes ==
  (Range(query_set_) \subseteq SupportedStatements)
    => /\ pc \in Terminal => pc = "Done"
       /\ Len(trace) <= MaxPasses

=============================================================================
